---- MODULE Spec2Model ----
(***************************************************************************)
(* State-machine model of src/cograph.py: the component variants Resistor  *)
(* and VoltageDC, the LineEdge value object and the CircuitGraph           *)
(* construction operations define and link.                                *)
(*                                                                         *)
(* Two specifications share the variables:                                 *)
(*   Spec      a caller building one CircuitGraph with define and link     *)
(*             (and constructing LineEdge objects of its own);             *)
(*   CompSpec  a caller invoking the component methods directly.           *)
(*                                                                         *)
(* A call that raises is modelled as the action that keeps every mutation  *)
(* the code made before the raise and records the exception in exc.        *)
(***************************************************************************)
EXTENDS Integers, Sequences, FiniteSets, TLC

VARIABLES
    comp,       \* component object -> its _state dict
    labels,     \* CircuitGraph._labels: label -> item reference
    c_nodes,    \* CircuitGraph._c_nodes
    l_edges,    \* CircuitGraph._l_edges (references into heap)
    heap,       \* live LineEdge objects, keyed by the number of their uuid
    held,       \* uuids of the LineEdge objects the caller built itself
    nextUuid,   \* number of uuid4() values drawn so far
    op,         \* name of the most recent call
    exc,        \* exception the most recent call raised (NoExc if none)
    ret         \* value the most recent call returned

vars == <<comp, labels, c_nodes, l_edges, heap, held, nextUuid, op, exc, ret>>
graphVars == <<labels, c_nodes, l_edges, heap, held, nextUuid>>

----------------------------------------------------------------------------
(* Bounds and input sets *)

\* uuid4() draws (LineEdge constructions) in one run
MaxUuid == 2
\* pin registrations held by all components together in CompSpec
MaxLines == 2

\* component objects the caller has constructed, and their classes
Comps == {"r1", "r2", "v1"}
GraphComps == {"r1", "v1"}
ClassOf(c) == IF c \in {"r1", "r2"} THEN "Resistor" ELSE "VoltageDC"

Labels == {"a", "b", "c"}
\* pin names offered by callers: "neg:" is the misspelt key of
\* VoltageDC.input_basis_table, "p1" a Resistor pin, "pos"/"neg" VoltageDC pins
PinNames == {"p1", "pos", "neg", "neg:"}

\* PhysicalProperties values as <<resistance, capacitance, inductance,
\* temperature_delta>>, resistance in tenths of an ohm
PhysicalProperties(r, c, l, t) == <<r, c, l, t>>
DefaultLine == PhysicalProperties(1, 0, 0, 0)
LineProps == {DefaultLine, PhysicalProperties(5, 0, 0, 0)}

\* endpoints the caller gives the LineEdge objects it builds itself
OwnEndpointsU == {<<"a", "p1">>}
OwnEndpointsV == {<<"b", "neg">>, <<"c", "neg:">>}
\* endpoints (label, pin) offered to link
Endpoints == {<<"a", "p1">>, <<"b", "neg">>, <<"b", "neg:">>}

Temps == {25, 30}
\* edge ids offered to the component methods in CompSpec
LineIds == {1, 2}
AttrKeys == {"voltage_selector_state", "colour"}
\* attribute values, by Python type
AttrValues == {[type |-> "float", v |-> 5], [type |-> "str", v |-> 0]}

----------------------------------------------------------------------------
(* Python values *)

NoExc == [type |-> "none", raised_in |-> "none"]
Raise(type, where) == [type |-> type, raised_in |-> where]

\* return values: kind None / UUID / self / bool, or "raised" when the call
\* did not return
RetNone == [kind |-> "None", n |-> 0, obj |-> ""]
RetRaised == [kind |-> "raised", n |-> 0, obj |-> ""]
RetUuid(n) == [kind |-> "UUID", n |-> n, obj |-> ""]
RetSelf(c) == [kind |-> "self", n |-> 0, obj |-> c]
RetBool(b) == [kind |-> "bool", n |-> IF b THEN 1 ELSE 0, obj |-> ""]

\* a UUID object and its str() form, the key of the per-pin dict
Uuid(n) == [t |-> "UUID", n |-> n]
Str(x) == [t |-> "str", n |-> x.n]

\* an insertion-ordered dict as a sequence of <<key, value>> pairs
DictKeys(d) == {d[i][1] : i \in DOMAIN d}
DictGet(d, k) == d[CHOOSE i \in DOMAIN d : d[i][1] = k][2]
\* d[k] = v
DictSet(d, k, v) ==
    IF k \in DictKeys(d)
    THEN [i \in DOMAIN d |-> IF d[i][1] = k THEN <<k, v>> ELSE d[i]]
    ELSE Append(d, <<k, v>>)
\* d.pop(k) for a key that is present
DictPop(d, k) == SelectSeq(d, LAMBDA e : e[1] # k)
\* d1 == d2 (Python compares dicts as mappings, ignoring insertion order)
DictEq(d1, d2) ==
    /\ DictKeys(d1) = DictKeys(d2)
    /\ \A k \in DictKeys(d1) : DictGet(d1, k) = DictGet(d2, k)

----------------------------------------------------------------------------
(* class Resistor *)

Resistor_basis == PhysicalProperties(10000, 0, 0, 0)

\* Resistor.__init__: the _state dict; a pin holds [basis, {str(uuid): props}]
Resistor_init ==
    [temp_c |-> 25,
     pins |-> [p1 |-> <<Resistor_basis, <<>>>>, p2 |-> <<Resistor_basis, <<>>>>],
     ticks |-> 0]

\* Resistor.input_basis_table is a plain method whose body is a set literal
\* holding PhysicalProperties objects; the dataclass is unhashable, so the
\* call raises TypeError and yields no table
Resistor_input_basis_table ==
    [exc |-> Raise("TypeError", "Resistor.input_basis_table"), table |-> <<>>]

\* on_initialisation that rebuilds the whole _state around the temperature
initialisation_rebuilds(c, s, ambient_temp_c) ==
    [state |-> [s EXCEPT !.temp_c = ambient_temp_c,
                         !.pins = [p \in DOMAIN s.pins |-> <<s.pins[p][1], <<>>>>]],
     exc |-> NoExc, ret |-> RetSelf(c)]

Resistor_on_initialisation(c, s, ambient_temp_c) ==
    [state |-> [s EXCEPT !.temp_c = ambient_temp_c], exc |-> NoExc, ret |-> RetSelf(c)]

\* on_line_connect on a _state whose pins all share one registration dict
connect_shared_dict(s, component_line_key, line_uuid, line_properties) ==
    IF component_line_key \notin DOMAIN s.pins
    THEN [state |-> s, exc |-> Raise("KeyError", "Resistor.on_line_connect"),
          ret |-> RetRaised]
    ELSE [state |-> [s EXCEPT !.pins = [p \in DOMAIN s.pins |->
                        <<s.pins[p][1], DictSet(s.pins[p][2], Str(line_uuid), line_properties)>>]],
          exc |-> NoExc, ret |-> RetNone]

Resistor_on_line_connect(s, component_line_key, line_uuid, line_properties) ==
    IF component_line_key \notin DOMAIN s.pins
    THEN [state |-> s, exc |-> Raise("KeyError", "Resistor.on_line_connect"),
          ret |-> RetRaised]
    ELSE [state |-> [s EXCEPT !.pins[component_line_key][2] =
                                DictSet(@, Str(line_uuid), line_properties)],
          exc |-> NoExc, ret |-> RetNone]

\* on_line_disconnect with pop(key, None): an absent edge id is ignored
disconnect_silent(s, component_line_key, line_id) ==
    IF component_line_key \notin DOMAIN s.pins
    THEN [state |-> s, exc |-> Raise("KeyError", "Resistor.on_line_disconnect"),
          ret |-> RetRaised]
    ELSE [state |-> [s EXCEPT !.pins[component_line_key][2] = DictPop(@, Str(line_id))],
          exc |-> NoExc, ret |-> RetNone]

Resistor_on_line_disconnect(s, component_line_key, line_id) ==
    IF \/ component_line_key \notin DOMAIN s.pins
       \/ Str(line_id) \notin DictKeys(s.pins[component_line_key][2])
    THEN [state |-> s, exc |-> Raise("KeyError", "Resistor.on_line_disconnect"),
          ret |-> RetRaised]
    ELSE [state |-> [s EXCEPT !.pins[component_line_key][2] = DictPop(@, Str(line_id))],
          exc |-> NoExc, ret |-> RetNone]

Resistor_attribute_lookup == [none |-> FALSE, map |-> <<>>]

Resistor_on_set_attribute(s, key, value) ==
    [state |-> s, exc |-> NoExc, ret |-> RetBool(FALSE)]

----------------------------------------------------------------------------
(* class VoltageDC *)

VoltageDC_basis == PhysicalProperties(0, 0, 0, 0)

\* self._attributes, set by __init__
VoltageDC_attributes == [voltage_selector_state |-> "float"]

\* self._attrib_type_map: only the class attribute exists, and it is None
VoltageDC_attrib_type_map == [none |-> TRUE, map |-> <<>>]

NoneValue == [type |-> "NoneType", v |-> 0]

\* VoltageDC.__init__; 'attributes' is dict.fromkeys(self._attributes)
VoltageDC_init ==
    [temp_c |-> 25,
     pins |-> [pos |-> <<VoltageDC_basis, <<>>>>, neg |-> <<VoltageDC_basis, <<>>>>],
     ticks |-> 0,
     attributes |-> [k \in DOMAIN VoltageDC_attributes |-> NoneValue]]

\* the property returns a dict with the keys 'pos' and 'neg:'
VoltageDC_input_basis_table ==
    [exc |-> NoExc,
     table |-> ("pos" :> VoltageDC_basis) @@ ("neg:" :> VoltageDC_basis)]

VoltageDC_on_initialisation(c, s, ambient_temp_c) ==
    [state |-> [s EXCEPT !.temp_c = ambient_temp_c], exc |-> NoExc, ret |-> RetSelf(c)]

\* on_line_connect with setdefault: an id already registered keeps the
\* properties it had
connect_setdefault(s, component_line_key, line_uuid, line_properties) ==
    IF component_line_key \notin DOMAIN s.pins
    THEN [state |-> s, exc |-> Raise("KeyError", "VoltageDC.on_line_connect"),
          ret |-> RetRaised]
    ELSE IF Str(line_uuid) \in DictKeys(s.pins[component_line_key][2])
    THEN [state |-> s, exc |-> NoExc, ret |-> RetNone]
    ELSE [state |-> [s EXCEPT !.pins[component_line_key][2] =
                                DictSet(@, Str(line_uuid), line_properties)],
          exc |-> NoExc, ret |-> RetNone]

VoltageDC_on_line_connect(s, component_line_key, line_uuid, line_properties) ==
    IF component_line_key \notin DOMAIN s.pins
    THEN [state |-> s, exc |-> Raise("KeyError", "VoltageDC.on_line_connect"),
          ret |-> RetRaised]
    ELSE [state |-> [s EXCEPT !.pins[component_line_key][2] =
                                DictSet(@, Str(line_uuid), line_properties)],
          exc |-> NoExc, ret |-> RetNone]

VoltageDC_on_line_disconnect(s, component_line_key, line_id) ==
    IF \/ component_line_key \notin DOMAIN s.pins
       \/ Str(line_id) \notin DictKeys(s.pins[component_line_key][2])
    THEN [state |-> s, exc |-> Raise("KeyError", "VoltageDC.on_line_disconnect"),
          ret |-> RetRaised]
    ELSE [state |-> [s EXCEPT !.pins[component_line_key][2] = DictPop(@, Str(line_id))],
          exc |-> NoExc, ret |-> RetNone]

VoltageDC_attribute_lookup == VoltageDC_attrib_type_map

\* `key not in self._attrib_type_map` on None raises TypeError; the later
\* branches are the rest of the method as written: it stores under
\* _state['attribute'] (the dict is kept under 'attributes') and has no
\* return statement on the accepting path
VoltageDC_on_set_attribute(s, key, value) ==
    LET m == VoltageDC_attrib_type_map IN
    IF m.none
    THEN [state |-> s, exc |-> Raise("TypeError", "VoltageDC.on_set_attribute"),
          ret |-> RetRaised]
    ELSE IF key \notin DOMAIN m.map
    THEN [state |-> s, exc |-> NoExc, ret |-> RetBool(FALSE)]
    ELSE IF value.type # m.map[key]
    THEN [state |-> s, exc |-> NoExc, ret |-> RetBool(FALSE)]
    ELSE IF "attribute" \notin DOMAIN s
    THEN [state |-> s, exc |-> Raise("KeyError", "VoltageDC.on_set_attribute"),
          ret |-> RetRaised]
    ELSE [state |-> [s EXCEPT !.attribute[key] = value], exc |-> NoExc,
          ret |-> RetNone]

----------------------------------------------------------------------------
(* ComponentNode: dispatch on the object's class *)

input_basis_table(c) ==
    IF ClassOf(c) = "Resistor" THEN Resistor_input_basis_table
    ELSE VoltageDC_input_basis_table

attribute_lookup(c) ==
    IF ClassOf(c) = "Resistor" THEN Resistor_attribute_lookup
    ELSE VoltageDC_attribute_lookup

on_initialisation(c, s, t) ==
    IF ClassOf(c) = "Resistor" THEN Resistor_on_initialisation(c, s, t)
    ELSE VoltageDC_on_initialisation(c, s, t)

on_line_connect(c, s, pin, line_uuid, props) ==
    IF ClassOf(c) = "Resistor" THEN Resistor_on_line_connect(s, pin, line_uuid, props)
    ELSE VoltageDC_on_line_connect(s, pin, line_uuid, props)

on_line_disconnect(c, s, pin, line_id) ==
    IF ClassOf(c) = "Resistor" THEN Resistor_on_line_disconnect(s, pin, line_id)
    ELSE VoltageDC_on_line_disconnect(s, pin, line_id)

on_set_attribute(c, s, key, value) ==
    IF ClassOf(c) = "Resistor" THEN Resistor_on_set_attribute(s, key, value)
    ELSE VoltageDC_on_set_attribute(s, key, value)

\* the dict of edge registrations of pin p in component state s
Lines(s, p) == s.pins[p][2]
\* number of registrations a component holds on all its pins
LineCount(s) ==
    IF "p1" \in DOMAIN s.pins THEN Len(Lines(s, "p1")) + Len(Lines(s, "p2"))
    ELSE Len(Lines(s, "pos")) + Len(Lines(s, "neg"))
\* registrations held by all components together
TotalLines(cs) == LineCount(cs["r1"]) + LineCount(cs["r2"]) + LineCount(cs["v1"])

----------------------------------------------------------------------------
(* Initial state: the components as their constructors leave them and an   *)
(* empty CircuitGraph (CircuitGraph.__init__)                              *)

CompInit ==
    [c \in Comps |-> IF ClassOf(c) = "Resistor" THEN Resistor_init ELSE VoltageDC_init]

Init ==
    /\ comp = CompInit
    /\ labels = <<>>
    /\ c_nodes = <<>>
    /\ l_edges = <<>>
    /\ heap = <<>>
    /\ held = {}
    /\ nextUuid = 0
    /\ op = "init"
    /\ exc = NoExc
    /\ ret = RetNone

----------------------------------------------------------------------------
(* CompSpec: direct calls of the component methods *)

CallOnInitialisation(c, t) ==
    LET r == on_initialisation(c, comp[c], t) IN
    /\ comp' = [comp EXCEPT ![c] = r.state]
    /\ op' = "on_initialisation"
    /\ exc' = r.exc
    /\ ret' = r.ret
    /\ UNCHANGED graphVars

CallOnLineConnect(c, pin, n, props) ==
    LET r == on_line_connect(c, comp[c], pin, Uuid(n), props) IN
    /\ TotalLines([comp EXCEPT ![c] = r.state]) <= MaxLines
    /\ comp' = [comp EXCEPT ![c] = r.state]
    /\ op' = "on_line_connect"
    /\ exc' = r.exc
    /\ ret' = r.ret
    /\ UNCHANGED graphVars

CallOnLineDisconnect(c, pin, n) ==
    LET r == on_line_disconnect(c, comp[c], pin, Uuid(n)) IN
    /\ comp' = [comp EXCEPT ![c] = r.state]
    /\ op' = "on_line_disconnect"
    /\ exc' = r.exc
    /\ ret' = r.ret
    /\ UNCHANGED graphVars

CallOnSetAttribute(c, key, value) ==
    LET r == on_set_attribute(c, comp[c], key, value) IN
    /\ comp' = [comp EXCEPT ![c] = r.state]
    /\ op' = "on_set_attribute"
    /\ exc' = r.exc
    /\ ret' = r.ret
    /\ UNCHANGED graphVars

CompNext ==
    \/ \E c \in Comps, t \in Temps : CallOnInitialisation(c, t)
    \/ \E c \in Comps, pin \in PinNames, n \in LineIds, props \in LineProps :
          CallOnLineConnect(c, pin, n, props)
    \/ \E c \in Comps, pin \in PinNames, n \in LineIds :
          CallOnLineDisconnect(c, pin, n)
    \/ \E c \in Comps, key \in AttrKeys, value \in AttrValues :
          CallOnSetAttribute(c, key, value)

CompSpec == Init /\ [][CompNext]_vars

----------------------------------------------------------------------------
(* class LineEdge and the items handed to define *)

\* LineEdge.__init__(conductor, u_id, u_pin, v_id, v_pin); n numbers the
\* uuid4() value the constructor draws (distinct draws are distinct values)
LineEdge(conductor, u_id, u_pin, v_id, v_pin, n) ==
    [conductor |-> conductor,
     u_component_id |-> u_id, u_component_pin |-> u_pin,
     v_component_id |-> v_id, v_component_pin |-> v_pin,
     uuid |-> Uuid(n)]

\* references to objects: a ComponentNode, a LineEdge, or anything else
ComponentItem(c) == [kind |-> "ComponentNode", comp |-> c, uuid |-> 0]
EdgeItem(n) == [kind |-> "LineEdge", comp |-> "", uuid |-> n]
OtherItem == [kind |-> "other", comp |-> "", uuid |-> 0]

----------------------------------------------------------------------------
(* class CircuitGraph; g is the record of _labels, _c_nodes and _l_edges *)

Graph == [labels |-> labels, c_nodes |-> c_nodes, l_edges |-> l_edges]

DefineBind(g, label, item) ==
    [l \in DOMAIN g.labels \cup {label} |-> IF l = label THEN item ELSE g.labels[l]]

\* define without the duplicate-label test: a used label is rebound
define_rebinding(g, label, item) ==
    IF item.kind = "ComponentNode"
    THEN [g |-> [g EXCEPT !.c_nodes = Append(@, item.comp),
                          !.labels = DefineBind(g, label, item)],
          exc |-> NoExc]
    ELSE IF item.kind = "LineEdge"
    THEN [g |-> [g EXCEPT !.l_edges = Append(@, item.uuid),
                          !.labels = DefineBind(g, label, item)],
          exc |-> NoExc]
    ELSE [g |-> g, exc |-> Raise("TypeError", "CircuitGraph.define")]

\* define that puts the new item at the head of its list
define_prepend(g, label, item) ==
    IF label \in DOMAIN g.labels
    THEN [g |-> g, exc |-> Raise("KeyError", "CircuitGraph.define")]
    ELSE IF item.kind = "ComponentNode"
    THEN [g |-> [g EXCEPT !.c_nodes = <<item.comp>> \o @,
                          !.labels = DefineBind(g, label, item)],
          exc |-> NoExc]
    ELSE IF item.kind = "LineEdge"
    THEN [g |-> [g EXCEPT !.l_edges = <<item.uuid>> \o @,
                          !.labels = DefineBind(g, label, item)],
          exc |-> NoExc]
    ELSE [g |-> g, exc |-> Raise("TypeError", "CircuitGraph.define")]

\* define that appends the item before it tests the label
define_append_first(g, label, item) ==
    LET grown == IF item.kind = "ComponentNode"
                 THEN [g EXCEPT !.c_nodes = Append(@, item.comp)]
                 ELSE IF item.kind = "LineEdge"
                 THEN [g EXCEPT !.l_edges = Append(@, item.uuid)]
                 ELSE g
    IN IF label \in DOMAIN g.labels
       THEN [g |-> grown, exc |-> Raise("KeyError", "CircuitGraph.define")]
       ELSE IF item.kind \in {"ComponentNode", "LineEdge"}
       THEN [g |-> [grown EXCEPT !.labels = DefineBind(g, label, item)], exc |-> NoExc]
       ELSE [g |-> g, exc |-> Raise("TypeError", "CircuitGraph.define")]

\* define that records the label before it looks at the item's type
define_bind_first(g, label, item) ==
    IF label \in DOMAIN g.labels
    THEN [g |-> g, exc |-> Raise("KeyError", "CircuitGraph.define")]
    ELSE IF item.kind = "ComponentNode"
    THEN [g |-> [g EXCEPT !.c_nodes = Append(@, item.comp),
                          !.labels = DefineBind(g, label, item)],
          exc |-> NoExc]
    ELSE IF item.kind = "LineEdge"
    THEN [g |-> [g EXCEPT !.l_edges = Append(@, item.uuid),
                          !.labels = DefineBind(g, label, item)],
          exc |-> NoExc]
    ELSE [g |-> [g EXCEPT !.labels = DefineBind(g, label, item)],
          exc |-> Raise("TypeError", "CircuitGraph.define")]

CircuitGraph_define(g, label, item) ==
    IF label \in DOMAIN g.labels
    THEN [g |-> g, exc |-> Raise("KeyError", "CircuitGraph.define")]
    ELSE IF item.kind = "ComponentNode"
    THEN [g |-> [g EXCEPT !.c_nodes = Append(@, item.comp),
                          !.labels = DefineBind(g, label, item)],
          exc |-> NoExc]
    ELSE IF item.kind = "LineEdge"
    THEN [g |-> [g EXCEPT !.l_edges = Append(@, item.uuid),
                          !.labels = DefineBind(g, label, item)],
          exc |-> NoExc]
    ELSE [g |-> g, exc |-> Raise("TypeError", "CircuitGraph.define")]

\* self._labels[id].on_line_connect(pin, edge.uuid, line_properties): the
\* subscript raises KeyError for an unbound label, the attribute lookup
\* raises AttributeError when the label names a LineEdge
LinkConnect(g, cs, id, pin, n, props) ==
    IF id \notin DOMAIN g.labels
    THEN [comp |-> cs, exc |-> Raise("KeyError", "CircuitGraph.link")]
    ELSE IF g.labels[id].kind # "ComponentNode"
    THEN [comp |-> cs, exc |-> Raise("AttributeError", "CircuitGraph.link")]
    ELSE LET c == g.labels[id].comp
             r == on_line_connect(c, cs[c], pin, Uuid(n), props)
         IN [comp |-> [cs EXCEPT ![c] = r.state], exc |-> r.exc]

\* link that connects endpoint u twice and never endpoint v
link_u_twice(g, cs, n, label, u_id, u_pin, v_id, v_pin, props) ==
    LET edge == LineEdge(props, u_id, u_pin, v_id, v_pin, n)
        cu == LinkConnect(g, cs, u_id, u_pin, edge.uuid.n, props)
        cv == LinkConnect(g, cu.comp, u_id, u_pin, edge.uuid.n, props)
        d == CircuitGraph_define(g, label, EdgeItem(edge.uuid.n))
    IN IF cu.exc # NoExc
       THEN [g |-> g, comp |-> cu.comp, exc |-> cu.exc, ret |-> RetRaised, edge |-> edge]
       ELSE IF cv.exc # NoExc
       THEN [g |-> g, comp |-> cv.comp, exc |-> cv.exc, ret |-> RetRaised, edge |-> edge]
       ELSE IF d.exc # NoExc
       THEN [g |-> g, comp |-> cv.comp, exc |-> d.exc, ret |-> RetRaised, edge |-> edge]
       ELSE [g |-> d.g, comp |-> cv.comp, exc |-> NoExc,
             ret |-> RetUuid(edge.uuid.n), edge |-> edge]

\* link(label, (u_id, u_pin), (v_id, v_pin), line_properties), whose edge
\* draws uuid number n
CircuitGraph_link(g, cs, n, label, u_id, u_pin, v_id, v_pin, props) ==
    LET edge == LineEdge(props, u_id, u_pin, v_id, v_pin, n)
        cu == LinkConnect(g, cs, u_id, u_pin, edge.uuid.n, props)
        cv == LinkConnect(g, cu.comp, v_id, v_pin, edge.uuid.n, props)
        d == CircuitGraph_define(g, label, EdgeItem(edge.uuid.n))
    IN IF cu.exc # NoExc
       THEN [g |-> g, comp |-> cu.comp, exc |-> cu.exc, ret |-> RetRaised, edge |-> edge]
       ELSE IF cv.exc # NoExc
       THEN [g |-> g, comp |-> cv.comp, exc |-> cv.exc, ret |-> RetRaised, edge |-> edge]
       ELSE IF d.exc # NoExc
       THEN [g |-> g, comp |-> cv.comp, exc |-> d.exc, ret |-> RetRaised, edge |-> edge]
       ELSE [g |-> d.g, comp |-> cv.comp, exc |-> NoExc,
             ret |-> RetUuid(edge.uuid.n), edge |-> edge]

----------------------------------------------------------------------------
(* Spec: a caller building the graph *)

\* the caller constructs a LineEdge of its own
NewLineEdge(props, u, v) ==
    /\ nextUuid < MaxUuid
    /\ nextUuid' = nextUuid + 1
    /\ heap' = heap @@ (nextUuid' :> LineEdge(props, u[1], u[2], v[1], v[2], nextUuid'))
    /\ held' = held \cup {nextUuid'}
    /\ op' = "LineEdge"
    /\ exc' = NoExc
    /\ ret' = RetUuid(nextUuid')
    /\ UNCHANGED <<comp, labels, c_nodes, l_edges>>

\* the objects the caller can hand to define
Items == {ComponentItem(c) : c \in GraphComps} \cup {EdgeItem(n) : n \in held}
            \cup {OtherItem}

Define(label, item) ==
    LET r == CircuitGraph_define(Graph, label, item) IN
    /\ labels' = r.g.labels
    /\ c_nodes' = r.g.c_nodes
    /\ l_edges' = r.g.l_edges
    /\ op' = "define"
    /\ exc' = r.exc
    /\ ret' = IF r.exc = NoExc THEN RetNone ELSE RetRaised
    /\ UNCHANGED <<comp, heap, held, nextUuid>>

Link(label, u_id, u_pin, v_id, v_pin, props) ==
    LET n == nextUuid + 1
        r == CircuitGraph_link(Graph, comp, n, label, u_id, u_pin, v_id, v_pin, props)
    IN
    /\ nextUuid < MaxUuid
    /\ nextUuid' = n
    /\ labels' = r.g.labels
    /\ c_nodes' = r.g.c_nodes
    /\ l_edges' = r.g.l_edges
    /\ comp' = r.comp
    /\ heap' = IF r.exc = NoExc THEN heap @@ (n :> r.edge) ELSE heap
    /\ op' = "link"
    /\ exc' = r.exc
    /\ ret' = r.ret
    /\ UNCHANGED held

Next ==
    \/ \E u \in OwnEndpointsU, v \in OwnEndpointsV : NewLineEdge(DefaultLine, u, v)
    \/ \E label \in Labels, item \in Items : Define(label, item)
    \/ \E label \in Labels, u \in Endpoints, v \in Endpoints, props \in LineProps :
          Link(label, u[1], u[2], v[1], v[2], props)

Spec == Init /\ [][Next]_vars

----------------------------------------------------------------------------
(* The error conditions of the construction API, as the caller sees them *)

\* define's `raise KeyError(...)`
DuplicateLabel == Raise("KeyError", "CircuitGraph.define")
\* define's `raise TypeError(...)`
UnrecognizedItemType == Raise("TypeError", "CircuitGraph.define")
\* the KeyError of the subscript self._labels[id] in link
UnknownLabel == Raise("KeyError", "CircuitGraph.link")
\* the KeyError of the subscript _state['pins'][pin] in on_line_connect
UnknownPin(e) ==
    /\ e.type = "KeyError"
    /\ e.raised_in \in {"Resistor.on_line_connect", "VoltageDC.on_line_connect"}

\* pin is a key of the dict component c's input_basis_table yields
PinInBasisTable(c, pin) ==
    LET t == input_basis_table(c) IN t.exc = NoExc /\ pin \in DOMAIN t.table

\* label id names a component of the graph
IsComponentLabel(id) == id \in DOMAIN labels /\ labels[id].kind = "ComponentNode"

\* label id names a component of the graph and pin is one of the pins that
\* component's on_line_connect accepts
ConnectsTo(id, pin) ==
    /\ id \in DOMAIN labels
    /\ labels[id].kind = "ComponentNode"
    /\ pin \in DOMAIN comp[labels[id].comp].pins

----------------------------------------------------------------------------
(* C1: labels are unique across components and edges.                     *)
(* In every reachable state, define with a bound label raises the         *)
(* duplicate-label KeyError and changes nothing, and link with a bound    *)
(* label does not succeed, leaves the label table and the lists alone and *)
(* raises the duplicate-label KeyError whenever it gets as far as its     *)
(* define (both endpoints connect).  Along every run a binding, once      *)
(* made, is never changed or removed, and a successful define or link     *)
(* binds exactly one label that was free.                                 *)
C1_Calls ==
    /\ \A label \in DOMAIN labels, item \in Items :
          LET r == CircuitGraph_define(Graph, label, item) IN
          r.exc = DuplicateLabel /\ r.g = Graph
    /\ \A label \in DOMAIN labels, u \in Endpoints, v \in Endpoints,
          props \in LineProps :
          LET r == CircuitGraph_link(Graph, comp, nextUuid + 1, label,
                                     u[1], u[2], v[1], v[2], props) IN
          /\ r.exc # NoExc
          /\ r.g = Graph
          /\ (ConnectsTo(u[1], u[2]) /\ ConnectsTo(v[1], v[2]))
                => r.exc = DuplicateLabel

C1_Step ==
    /\ \A l \in DOMAIN labels : l \in DOMAIN labels' /\ labels'[l] = labels[l]
    /\ (op' \in {"define", "link"} /\ exc' = NoExc)
          => \E l \in Labels \ DOMAIN labels : DOMAIN labels' = DOMAIN labels \cup {l}
    /\ exc' # NoExc => labels' = labels

C1_LabelsUnique == []C1_Calls /\ [][C1_Step]_vars

\* a link reached its define with a label that names a component
C1_Witness ==
    /\ op = "link"
    /\ exc = DuplicateLabel
    /\ \A l \in DOMAIN labels : labels[l].kind = "ComponentNode"

----------------------------------------------------------------------------
(* C2: link never creates an edge referencing a pin absent from the       *)
(* target component's input_basis_table: every edge that a successful     *)
(* link put into the graph names, at both endpoints, a pin that is a key  *)
(* of the input_basis_table of the component its label is bound to.       *)
C2_LinkPinsInBasisTable ==
    \A i \in DOMAIN l_edges :
        LET e == heap[l_edges[i]] IN
        l_edges[i] \notin held =>
            /\ PinInBasisTable(labels[e.u_component_id].comp, e.u_component_pin)
            /\ PinInBasisTable(labels[e.v_component_id].comp, e.v_component_pin)

----------------------------------------------------------------------------
(* C3: whenever u_label or v_label is not the label of a defined          *)
(* component (unbound, or bound to a LineEdge), link fails with the       *)
(* unknown-label condition, taken here as any KeyError out of link's      *)
(* lookups, and adds no edge to the graph.                                *)
C3_UnknownLabelFails ==
    \A label \in Labels, u \in Endpoints, v \in Endpoints, props \in LineProps :
        (~IsComponentLabel(u[1]) \/ ~IsComponentLabel(v[1])) =>
            LET r == CircuitGraph_link(Graph, comp, nextUuid + 1, label,
                                       u[1], u[2], v[1], v[2], props) IN
            /\ r.exc.type = "KeyError"
            /\ r.g.l_edges = l_edges

----------------------------------------------------------------------------
(* C4: a link that fails on an unknown pin or an unknown label leaves the *)
(* label table, the edge list and every component's per-pin registrations *)
(* as they were before the call.                                          *)
C4_FailedLinkKeepsState ==
    [][ (op' = "link" /\ (exc' = UnknownLabel \/ UnknownPin(exc')))
            => UNCHANGED <<labels, l_edges, c_nodes, comp>> ]_vars

----------------------------------------------------------------------------
(* C5: a step that is a successful link(label, u, v, props) binds label   *)
(* to a new LineEdge with endpoints u and v and conductor props, appends  *)
(* it to the edge list, leaves the edge's id registered with props on pin *)
(* u_pin of component u and pin v_pin of component v, draws an id no      *)
(* earlier LineEdge had, and returns that id.                             *)
C5_Post(label, u, v, props) ==
    LET n == ret'.n
        key == [t |-> "str", n |-> n]
        cu == labels[u[1]].comp
        cv == labels[v[1]].comp
    IN
    /\ ret'.kind = "UUID"
    /\ n \notin 1..nextUuid
    /\ n \notin DOMAIN heap
    /\ label \notin DOMAIN labels
    /\ DOMAIN labels' = DOMAIN labels \cup {label}
    /\ labels'[label] = [kind |-> "LineEdge", comp |-> "", uuid |-> n]
    /\ l_edges' = Append(l_edges, n)
    /\ c_nodes' = c_nodes
    /\ heap'[n] = [conductor |-> props,
                   u_component_id |-> u[1], u_component_pin |-> u[2],
                   v_component_id |-> v[1], v_component_pin |-> v[2],
                   uuid |-> [t |-> "UUID", n |-> n]]
    /\ IsComponentLabel(u[1]) /\ IsComponentLabel(v[1])
    /\ key \in DictKeys(comp'[cu].pins[u[2]][2])
    /\ DictGet(comp'[cu].pins[u[2]][2], key) = props
    /\ key \in DictKeys(comp'[cv].pins[v[2]][2])
    /\ DictGet(comp'[cv].pins[v[2]][2], key) = props

C5_SuccessfulLink ==
    [][ (op' = "link" /\ exc' = NoExc) =>
            \A label \in Labels, u \in Endpoints, v \in Endpoints, props \in LineProps :
                Link(label, u[1], u[2], v[1], v[2], props) => C5_Post(label, u, v, props)
      ]_vars

\* a successful link joining two different components, made after an
\* earlier LineEdge had drawn an id
C5_Witness ==
    /\ op = "link"
    /\ exc = NoExc
    /\ ret = RetUuid(2)
    /\ LET e == heap[2] IN
       /\ IsComponentLabel(e.u_component_id) /\ IsComponentLabel(e.v_component_id)
       /\ labels[e.u_component_id].comp # labels[e.v_component_id].comp

----------------------------------------------------------------------------
(* C6: define with a free label and an item that is neither a             *)
(* ComponentNode nor a LineEdge raises the unrecognised-item TypeError    *)
(* and leaves the label table, the component list and the edge list as    *)
(* they were, so the label stays free.                                    *)
C6_Calls ==
    \A label \in Labels \ DOMAIN labels :
        LET r == CircuitGraph_define(Graph, label, OtherItem) IN
        /\ r.exc = UnrecognizedItemType
        /\ r.g = Graph

C6_Step ==
    exc' = UnrecognizedItemType => UNCHANGED <<labels, c_nodes, l_edges, comp>>

C6_UnrecognizedItem == []C6_Calls /\ [][C6_Step]_vars

\* the TypeError raised on a graph that already holds items and free labels
C6_Witness ==
    /\ op = "define"
    /\ exc = UnrecognizedItemType
    /\ c_nodes # <<>>
    /\ l_edges # <<>>
    /\ Labels \ DOMAIN labels # {}

----------------------------------------------------------------------------
(* C7: on_set_attribute(key, value) never raises; on every component it   *)
(* returns true exactly when key is in attribute_lookup with the type of  *)
(* value, and then stores the value; otherwise it returns false and       *)
(* leaves the component as it was.                                        *)
C7_SetAttribute ==
    \A c \in Comps, key \in AttrKeys, value \in AttrValues :
        LET r == on_set_attribute(c, comp[c], key, value)
            lk == attribute_lookup(c)
            ok == /\ ~lk.none
                  /\ key \in DOMAIN lk.map
                  /\ lk.map[key] = value.type
        IN
        /\ r.exc = NoExc
        /\ r.ret = RetBool(ok)
        /\ ok => r.state.attributes[key] = value
        /\ ~ok => r.state = comp[c]

----------------------------------------------------------------------------
(* C8: every LineEdge in the graph's edge list, whether link or a direct  *)
(* define put it there, names at both endpoints a label bound to a        *)
(* ComponentNode of the graph and a pin that component accepts.           *)
C8_EdgeEndpointsValid ==
    \A i \in DOMAIN l_edges :
        LET e == heap[l_edges[i]] IN
        /\ ConnectsTo(e.u_component_id, e.u_component_pin)
        /\ ConnectsTo(e.v_component_id, e.v_component_pin)

----------------------------------------------------------------------------
(* C9: on_line_disconnect(pin, edge_id) on a pin that holds edge_id       *)
(* returns normally and removes that one registration, keeping every      *)
(* other registration of the component and their order; when edge_id is   *)
(* not registered on pin (never connected, on another pin, already        *)
(* disconnected, or no such pin) it raises KeyError and the component is  *)
(* unchanged.                                                             *)
C9_Calls ==
    \A c \in Comps, pin \in PinNames, n \in LineIds :
        LET s == comp[c]
            key == [t |-> "str", n |-> n]
            r == on_line_disconnect(c, s, pin, Uuid(n))
        IN
        IF pin \in DOMAIN s.pins /\ \E i \in DOMAIN s.pins[pin][2] : s.pins[pin][2][i][1] = key
        THEN /\ r.exc = NoExc
             /\ r.state.temp_c = s.temp_c
             /\ r.state.ticks = s.ticks
             /\ DOMAIN r.state.pins = DOMAIN s.pins
             /\ \A p \in DOMAIN s.pins \ {pin} : r.state.pins[p] = s.pins[p]
             /\ r.state.pins[pin][1] = s.pins[pin][1]
             /\ LET old == s.pins[pin][2]
                    new == r.state.pins[pin][2]
                    at == CHOOSE i \in DOMAIN old : old[i][1] = key
                IN /\ Len(new) = Len(old) - 1
                   /\ \A i \in DOMAIN new : new[i] = IF i < at THEN old[i] ELSE old[i + 1]
        ELSE /\ r.exc.type = "KeyError"
             /\ r.state = s

C9_Step ==
    (op' = "on_line_disconnect" /\ exc' # NoExc) => comp' = comp

C9_Disconnect == []C9_Calls /\ [][C9_Step]_vars

\* a disconnect raised on a component that holds registrations
C9_Witness ==
    /\ op = "on_line_disconnect"
    /\ exc.type = "KeyError"
    /\ TotalLines(comp) = MaxLines

----------------------------------------------------------------------------
(* C10: for every component state reached, pin P, edge X and properties,  *)
(* connect(P, X, props); disconnect(P, X); connect(P, X, props) all       *)
(* return normally when the first does, and leave the component equal     *)
(* (as Python compares its _state: dicts as mappings) to the component    *)
(* after the single connect(P, X, props), whatever else is registered.    *)
StateEq(s1, s2) ==
    /\ s1.temp_c = s2.temp_c
    /\ s1.ticks = s2.ticks
    /\ DOMAIN s1.pins = DOMAIN s2.pins
    /\ \A p \in DOMAIN s1.pins :
          /\ s1.pins[p][1] = s2.pins[p][1]
          /\ DictEq(s1.pins[p][2], s2.pins[p][2])
    /\ ("attributes" \in DOMAIN s1) = ("attributes" \in DOMAIN s2)
    /\ "attributes" \in DOMAIN s1 => s1.attributes = s2.attributes

RoundTrip(c, s, pin, n, props) ==
    LET first == on_line_connect(c, s, pin, Uuid(n), props)
        gone == on_line_disconnect(c, first.state, pin, Uuid(n))
        again == on_line_connect(c, gone.state, pin, Uuid(n), props)
    IN [single |-> first, gone |-> gone, again |-> again]

C10_RoundTrip ==
    \A c \in Comps, pin \in PinNames, n \in LineIds, props \in LineProps :
        LET t == RoundTrip(c, comp[c], pin, n, props) IN
        t.single.exc = NoExc =>
            /\ t.gone.exc = NoExc
            /\ t.again.exc = NoExc
            /\ StateEq(t.again.state, t.single.state)
            /\ pin \in DOMAIN comp[c].pins
            /\ DictGet(t.again.state.pins[pin][2], [t |-> "str", n |-> n]) = props

\* a component reached by connect calls on which the round trip of an edge
\* registered before another edge moves it behind that edge
C10_Witness ==
    /\ op = "on_line_connect"
    /\ exc = NoExc
    /\ \E c \in Comps, pin \in PinNames, n \in LineIds, props \in LineProps :
          /\ pin \in DOMAIN comp[c].pins
          /\ Len(comp[c].pins[pin][2]) = 2
          /\ comp[c].pins[pin][2][1][1] = [t |-> "str", n |-> n]
          /\ comp[c].pins[pin][2][1][2] # props
          /\ RoundTrip(c, comp[c], pin, n, props).again.state
                # RoundTrip(c, comp[c], pin, n, props).single.state

----------------------------------------------------------------------------
(* C12: input_basis_table is the authoritative list of pin names:         *)
(* on_line_connect(pin, edge_id, props) returns normally and records      *)
(* edge_id -> props on pin exactly when pin is a key of the component's   *)
(* input_basis_table, and otherwise raises the unknown-pin KeyError and   *)
(* leaves the component as it was.                                        *)
C12_ConnectFollowsBasisTable ==
    \A c \in Comps, pin \in PinNames, n \in LineIds, props \in LineProps :
        LET s == comp[c]
            key == [t |-> "str", n |-> n]
            r == on_line_connect(c, s, pin, Uuid(n), props)
        IN
        IF PinInBasisTable(c, pin)
        THEN /\ r.exc = NoExc
             /\ pin \in DOMAIN r.state.pins
             /\ key \in DictKeys(r.state.pins[pin][2])
             /\ DictGet(r.state.pins[pin][2], key) = props
        ELSE /\ UnknownPin(r.exc)
             /\ r.state = s

----------------------------------------------------------------------------
(* C13: the graph only grows and keeps definition order.  In every        *)
(* reachable state a define of a free label with a component (an edge)    *)
(* appends it at the end of the component (edge) list and touches nothing *)
(* else but the new binding.  Along every run each list keeps its old     *)
(* content as a prefix, a failed call leaves lists and labels alone, a    *)
(* successful define or link grows exactly one list by the item the new   *)
(* label is bound to, and a binding is never changed or removed.          *)
C13_Calls ==
    \A label \in Labels \ DOMAIN labels, item \in Items \ {OtherItem} :
        LET r == CircuitGraph_define(Graph, label, item) IN
        /\ r.exc = NoExc
        /\ DOMAIN r.g.labels = DOMAIN labels \cup {label}
        /\ r.g.labels[label] = item
        /\ \A l \in DOMAIN labels : r.g.labels[l] = labels[l]
        /\ IF item.kind = "ComponentNode"
           THEN /\ Len(r.g.c_nodes) = Len(c_nodes) + 1
                /\ \A i \in DOMAIN c_nodes : r.g.c_nodes[i] = c_nodes[i]
                /\ r.g.c_nodes[Len(c_nodes) + 1] = item.comp
                /\ r.g.l_edges = l_edges
           ELSE /\ Len(r.g.l_edges) = Len(l_edges) + 1
                /\ \A i \in DOMAIN l_edges : r.g.l_edges[i] = l_edges[i]
                /\ r.g.l_edges[Len(l_edges) + 1] = item.uuid
                /\ r.g.c_nodes = c_nodes

IsPrefix(old, new) ==
    /\ Len(old) <= Len(new)
    /\ \A i \in DOMAIN old : new[i] = old[i]

C13_Step ==
    /\ IsPrefix(c_nodes, c_nodes')
    /\ IsPrefix(l_edges, l_edges')
    /\ \A l \in DOMAIN labels : l \in DOMAIN labels' /\ labels'[l] = labels[l]
    /\ (exc' # NoExc \/ op' \notin {"define", "link"})
          => UNCHANGED <<labels, c_nodes, l_edges>>
    /\ (exc' = NoExc /\ op' \in {"define", "link"}) =>
          \E l \in Labels \ DOMAIN labels :
              /\ DOMAIN labels' = DOMAIN labels \cup {l}
              /\ IF labels'[l].kind = "ComponentNode"
                 THEN /\ op' = "define"
                      /\ Len(c_nodes') = Len(c_nodes) + 1
                      /\ c_nodes'[Len(c_nodes')] = labels'[l].comp
                      /\ l_edges' = l_edges
                 ELSE /\ labels'[l].kind = "LineEdge"
                      /\ Len(l_edges') = Len(l_edges) + 1
                      /\ l_edges'[Len(l_edges')] = labels'[l].uuid
                      /\ c_nodes' = c_nodes

C13_GrowsInOrder == []C13_Calls /\ [][C13_Step]_vars

\* two different components and an edge are in the graph, in their lists,
\* and a later call has failed
C13_Witness ==
    /\ Len(c_nodes) = 2
    /\ c_nodes[1] # c_nodes[2]
    /\ Len(l_edges) = 1
    /\ exc # NoExc
    /\ op \in {"define", "link"}

----------------------------------------------------------------------------
(* C14: on_initialisation(t) returns the component itself, sets its       *)
(* ambient temperature to t and changes nothing else (pins and their      *)
(* registrations, tick counter, attributes); a second call with the same  *)
(* t leaves the state identical, and a call with t2 leaves the            *)
(* temperature at t2 whatever it was.  No other component is touched.     *)
C14_Calls ==
    \A c \in Comps, t \in Temps :
        LET s == comp[c]
            r == on_initialisation(c, s, t)
        IN
        /\ r.exc = NoExc
        /\ r.ret = [kind |-> "self", n |-> 0, obj |-> c]
        /\ r.state.temp_c = t
        /\ DOMAIN r.state = DOMAIN s
        /\ \A f \in DOMAIN s \ {"temp_c"} : r.state[f] = s[f]
        /\ on_initialisation(c, r.state, t).state = r.state
        /\ \A t2 \in Temps :
              LET r2 == on_initialisation(c, r.state, t2) IN
              /\ r2.state.temp_c = t2
              /\ \A f \in DOMAIN s \ {"temp_c"} : r2.state[f] = s[f]

C14_Step ==
    op' = "on_initialisation" =>
        /\ exc' = NoExc
        /\ ret'.kind = "self"
        /\ \A c \in Comps :
              /\ c # ret'.obj => comp'[c] = comp[c]
              /\ comp'[c].pins = comp[c].pins
              /\ comp'[c].ticks = comp[c].ticks

C14_Initialisation == []C14_Calls /\ [][C14_Step]_vars

\* a component holding registrations has been given a new temperature
C14_Witness ==
    /\ op = "on_initialisation"
    /\ ret.kind = "self"
    /\ comp[ret.obj].temp_c = 30
    /\ LineCount(comp[ret.obj]) = MaxLines

----------------------------------------------------------------------------
(* C15: after any sequence of define and link calls, successful or        *)
(* failed, every edge id registered on a pin of a component is the id of  *)
(* a LineEdge in the graph's edge list that names that component (by a    *)
(* label bound to it) and that pin as one of its endpoints; so a link     *)
(* that failed, with a duplicate label or otherwise, has left no          *)
(* registration behind.                                                   *)
EdgeNames(e, c, pin) ==
    \/ /\ e.u_component_pin = pin
       /\ IsComponentLabel(e.u_component_id)
       /\ labels[e.u_component_id].comp = c
    \/ /\ e.v_component_pin = pin
       /\ IsComponentLabel(e.v_component_id)
       /\ labels[e.v_component_id].comp = c

C15_RegistrationsHaveEdges ==
    \A c \in Comps :
        \A pin \in DOMAIN comp[c].pins :
            \A k \in DictKeys(comp[c].pins[pin][2]) :
                \E i \in DOMAIN l_edges :
                    /\ [t |-> "str", n |-> l_edges[i]] = k
                    /\ EdgeNames(heap[l_edges[i]], c, pin)

----------------------------------------------------------------------------
(* C16: on_line_connect(pin, edge_id, props) and on_line_disconnect(pin,  *)
(* edge_id) on a component change nothing but the registrations of that   *)
(* pin of that component: its other pins, its basis, temperature, ticks   *)
(* and attributes, and every other component (also another instance of    *)
(* the same class) stay as they were.                                     *)
OnlyPinChanged(s, new, pin) ==
    /\ DOMAIN new = DOMAIN s
    /\ \A f \in DOMAIN s \ {"pins"} : new[f] = s[f]
    /\ DOMAIN new.pins = DOMAIN s.pins
    /\ \A p \in DOMAIN s.pins :
          /\ new.pins[p][1] = s.pins[p][1]
          /\ p # pin => new.pins[p][2] = s.pins[p][2]

C16_Calls ==
    \A c \in Comps, pin \in PinNames, n \in LineIds :
        /\ OnlyPinChanged(comp[c], on_line_disconnect(c, comp[c], pin, Uuid(n)).state, pin)
        /\ \A props \in LineProps :
              OnlyPinChanged(comp[c], on_line_connect(c, comp[c], pin, Uuid(n), props).state, pin)

C16_Step ==
    op' \in {"on_line_connect", "on_line_disconnect"} =>
        \/ comp' = comp
        \/ \E c \in Comps :
              /\ \A d \in Comps \ {c} : comp'[d] = comp[d]
              /\ \E pin \in DOMAIN comp[c].pins : OnlyPinChanged(comp[c], comp'[c], pin)

C16_ConnectFrame == []C16_Calls /\ [][C16_Step]_vars

\* a connect has just succeeded while another instance of the same class
\* holds a registration of its own
C16_Witness ==
    /\ op = "on_line_connect"
    /\ exc = NoExc
    /\ \E c \in Comps, d \in Comps :
          /\ c # d
          /\ ClassOf(c) = ClassOf(d)
          /\ LineCount(comp[c]) = 1
          /\ LineCount(comp[d]) = 1

----------------------------------------------------------------------------
(* C17: in every reachable state of a CircuitGraph the number of labels   *)
(* equals len(_c_nodes) + len(_l_edges), every label is bound to an item  *)
(* that occurs in the list of its kind, and every item of either list is  *)
(* bound to at least one label.                                           *)
C17_LabelsMatchLists ==
    /\ Cardinality(DOMAIN labels) = Len(c_nodes) + Len(l_edges)
    /\ \A l \in DOMAIN labels :
          \/ /\ labels[l].kind = "ComponentNode"
             /\ \E i \in DOMAIN c_nodes : c_nodes[i] = labels[l].comp
          \/ /\ labels[l].kind = "LineEdge"
             /\ \E i \in DOMAIN l_edges : l_edges[i] = labels[l].uuid
    /\ \A i \in DOMAIN c_nodes :
          \E l \in DOMAIN labels : labels[l] = ComponentItem(c_nodes[i])
    /\ \A i \in DOMAIN l_edges :
          \E l \in DOMAIN labels : labels[l] = EdgeItem(l_edges[i])

\* one component bound under two labels, so listed twice, next to an edge,
\* and the last define was refused
C17_Witness ==
    /\ Len(c_nodes) = 2
    /\ c_nodes[1] = c_nodes[2]
    /\ Len(l_edges) = 1
    /\ op = "define"
    /\ exc # NoExc

====
